---------------------------- MODULE Spec2Model ----------------------------
(***************************************************************************)
(* Model of src/pileus_API_service.py: the PileusAPIService session        *)
(* (authenticate), its HTTP transport (send_post_request,                  *)
(* send_get_request), the four domain operations and main's menu loop.     *)
(*                                                                         *)
(* Python values are tagged records; a Python str is a sequence of         *)
(* one-character strings, so that str.replace, f-string concatenation and  *)
(* JSON encoding/decoding are computed and not assumed.                    *)
(***************************************************************************)
EXTENDS Integers, Sequences, FiniteSets, TLC

VARIABLES
    username,         \* self.username
    password,         \* self.password
    auth_token,       \* self.auth_token
    api_key,          \* self.api_key
    account_api_key,  \* self.account_api_key
    files,            \* local file system: path -> content of the files written
    dirs,             \* local file system: directories created
    call,             \* the method call in progress: arguments, transport outcome,
                      \* result and the records it handed to the logging module
    pc,               \* main(): control position
    auth_result,      \* main(): outcome of `if service.authenticate()`
    parent_choice,    \* main(): parent_choice
    choice,           \* main(): choice
    n_auth            \* main(): authenticate() calls made so far

service_vars == <<username, password, auth_token, api_key, account_api_key>>
fs_vars == <<files, dirs>>
main_vars == <<pc, auth_result, parent_choice, choice, n_auth>>
vars == <<username, password, auth_token, api_key, account_api_key, files, dirs,
          call, pc, auth_result, parent_choice, choice, n_auth>>

---------------------------------------------------------------------------
(* Bounds of the model.                                                    *)

\* longest apikey string the mocked auth endpoint returns
MaxKeyLen == 3

---------------------------------------------------------------------------
(* Python values.                                                          *)

None == [t |-> "None"]
Str(s) == [t |-> "str", s |-> s]
PyInt(n) == [t |-> "int", n |-> n]
PyBool(b) == [t |-> "bool", b |-> b]
Dict(d) == [t |-> "dict", d |-> d]
EmptyDict == Dict([k \in {} |-> None])

\* Python truthiness, as `if x`, `not x`, `x or y`, `bool(x)` evaluate it.
Truthy(v) ==
    CASE v.t = "None" -> FALSE
      [] v.t = "str"  -> v.s # <<>>
      [] v.t = "int"  -> v.n # 0
      [] v.t = "bool" -> v.b
      [] v.t = "dict" -> DOMAIN v.d # {}

\* dict.get(key): the value, or None when the key is missing.
DictGet(v, key) == IF key \in DOMAIN v.d THEN v.d[key] ELSE None

\* `x or None`
OrNone(v) == IF Truthy(v) THEN v ELSE None

\* `a and b` as Python evaluates it: a when a is falsy, else b.
PyAnd(a, b) == IF Truthy(a) THEN b ELSE a

\* the strings over alphabet A of length at most n
StringsUpTo(A, n) == UNION {[1..m -> A] : m \in 0..n}

---------------------------------------------------------------------------
(* str.replace and JSON text.                                              *)

\* whether `old` occurs in s at position i
MatchesAt(s, old, i) ==
    /\ i + Len(old) - 1 <= Len(s)
    /\ \A j \in 1..Len(old) : s[i + j - 1] = old[j]

RECURSIVE StrReplace(_, _, _)
\* s.replace(old, new) for a non-empty `old`: every occurrence, scanning from
\* the left, without overlap
StrReplace(s, old, new) ==
    IF s = <<>> THEN <<>>
    ELSE IF MatchesAt(s, old, 1)
         THEN new \o StrReplace(SubSeq(s, Len(old) + 1, Len(s)), old, new)
         ELSE <<Head(s)>> \o StrReplace(Tail(s), old, new)

\* the two literals of authenticate's replace call
PLACEHOLDER == <<"-", "1">>
ACCOUNT_DIVISION == <<"1", "8", "7", "4", "5", ":", "0">>

\* the order in which the mocked endpoints write the keys of a JSON object
JsonKeyOrder == <<"Authorization", "apikey", "message">>

Quote == "\""

RECURSIVE JsonEncodeItems(_, _, _)
\* the members of JSON object d, for the keys of `keys` that d has
JsonEncodeItems(d, keys, first) ==
    IF keys = <<>> THEN <<>>
    ELSE IF Head(keys) \in DOMAIN d
         THEN (IF first THEN <<>> ELSE <<",">>)
              \o <<Quote, Head(keys), Quote, ":", Quote>> \o d[Head(keys)].s \o <<Quote>>
              \o JsonEncodeItems(d, Tail(keys), FALSE)
         ELSE JsonEncodeItems(d, Tail(keys), first)

\* the JSON text of a value (strings here hold no character that JSON escapes)
JsonEncode(v) ==
    CASE v.t = "None" -> <<"n", "u", "l", "l">>
      [] v.t = "str"  -> <<Quote>> \o v.s \o <<Quote>>
      [] v.t = "int"  -> <<ToString(v.n)>>
      [] v.t = "dict" -> <<"{">> \o JsonEncodeItems(v.d, JsonKeyOrder, TRUE) \o <<"}">>

\* The values and texts of the mocked remote API.
KeyAlphabet == {"-", "1"}
ApiKeys == StringsUpTo(KeyAlphabet, MaxKeyLen)
TOKEN == <<"t", "o", "k">>
MESSAGE == <<"e", "r", "r">>
SCRIPT == <<"#", "!", "s", "h">>

\* a JSON object with the given members; None stands for a missing key
JsonObject(a, k, m) ==
    LET keys == (IF a = None THEN {} ELSE {"Authorization"})
                \cup (IF k = None THEN {} ELSE {"apikey"})
                \cup (IF m = None THEN {} ELSE {"message"})
    IN Dict([x \in keys |-> CASE x = "Authorization" -> a
                              [] x = "apikey" -> k
                              [] x = "message" -> m])

AuthObjects ==
    {JsonObject(a, k, m) : a \in {None, Str(TOKEN)},
                           k \in {None} \cup {Str(s) : s \in ApiKeys},
                           m \in {None, Str(MESSAGE)}}

JsonValues ==
    AuthObjects \cup {None, Str(<<>>), Str(MESSAGE), PyInt(0), PyInt(7)}

\* Response.json(): the value whose JSON text the body is, if there is one
JsonTexts == {<<JsonEncode(v), v>> : v \in JsonValues}
IsJson(text) == \E p \in JsonTexts : p[1] = text
JsonDecode(text) == (CHOOSE p \in JsonTexts : p[1] = text)[2]

---------------------------------------------------------------------------
(* HTTP transport.                                                         *)

BASE_AUTH_URL == <<"https://tokenizer.mypileus.io/prod/credentials">>
BASE_API_URL == <<"https://api.mypileus.io/api/v1">>
BASE_API_V2_URL == <<"https://api.mypileus.io/api/v2">>

REQUEST_TIMEOUT == 100
HTTP_OK == 200

\* What one requests.post / requests.get attempt ends in: one of the three
\* exception classes the handlers name, or a response with a status and a body.
TransportErrors == {"Timeout", "ConnectionError", "RequestException"}
Failure(kind) == [k |-> kind]
Response(status_code, text) == [k |-> "response", status_code |-> status_code, text |-> text]
NoOutcome == [k |-> "none"]

\* a record handed to the logging module: logging.<level>(msg, *args)
LogRecord(level, msg, args) == [level |-> level, msg |-> msg, args |-> args]

\* what a method call comes to: the value returned or the exception raised,
\* the log records it emitted and the HTTP requests it issued
Result(ret, exc, records, reqs) == [ret |-> ret, exc |-> exc, log |-> records, reqs |-> reqs]
Returned(r) == r.exc = "none"

Request(method, url, headers, json) ==
    [method |-> method, url |-> url, headers |-> headers, json |-> json,
     timeout |-> REQUEST_TIMEOUT]

\* the except clauses shared by send_post_request and send_get_request
TransportErrorLog(method, url, kind) ==
    CASE kind = "Timeout" ->
            LogRecord("ERROR", method \o " request to %s timed out.", <<Str(url)>>)
      [] kind = "ConnectionError" ->
            LogRecord("ERROR",
                      "Connection error occurred when sending " \o method \o " request to %s.",
                      <<Str(url)>>)
      [] kind = "RequestException" ->
            LogRecord("ERROR", "An unexpected error occurred: %s", <<Str(<<kind>>)>>)

\* send_post_request that drops the body of a non-200 answer, as
\* send_get_request does
send_post_request_ok_only(url, headers, payload, out) ==
    LET req == Request("POST", url, headers, payload)
    IN IF out.k = "response"
       THEN Result(IF out.status_code # HTTP_OK THEN None
                   ELSE IF IsJson(out.text) THEN JsonDecode(out.text) ELSE Str(out.text),
                   "none",
                   <<LogRecord("INFO", "POST Request to %s - Status Code: %s",
                               <<Str(url), PyInt(out.status_code)>>)>>
                   \o (IF out.status_code # HTTP_OK
                       THEN <<LogRecord("ERROR", "POST request failed: %s", <<Str(out.text)>>)>>
                       ELSE <<>>),
                   <<req>>)
       ELSE Result(None, "none", <<TransportErrorLog("POST", url, out.k)>>, <<req>>)

\* send_post_request with a second attempt after a timeout
send_post_request_retry(url, headers, payload, out) ==
    LET req == Request("POST", url, headers, payload)
    IN IF out.k = "response"
       THEN Result(IF IsJson(out.text) THEN JsonDecode(out.text) ELSE Str(out.text),
                   "none",
                   <<LogRecord("INFO", "POST Request to %s - Status Code: %s",
                               <<Str(url), PyInt(out.status_code)>>)>>,
                   <<req>>)
       ELSE Result(None, "none", <<TransportErrorLog("POST", url, out.k)>>,
                   IF out.k = "Timeout" THEN <<req, req>> ELSE <<req>>)

send_post_request(url, headers, payload, out) ==
    LET req == Request("POST", url, headers, payload)
    IN IF out.k = "response"
       THEN Result(IF IsJson(out.text) THEN JsonDecode(out.text) ELSE Str(out.text),
                   "none",
                   <<LogRecord("INFO", "POST Request to %s - Status Code: %s",
                               <<Str(url), PyInt(out.status_code)>>)>>
                   \o (IF out.status_code # HTTP_OK
                       THEN <<LogRecord("ERROR", "POST request failed: %s", <<Str(out.text)>>)>>
                       ELSE <<>>),
                   <<req>>)
       ELSE Result(None, "none", <<TransportErrorLog("POST", url, out.k)>>, <<req>>)

\* send_get_request that hands back the decoded body whatever the status, as
\* send_post_request does
send_get_request_any_status(url, headers, out) ==
    LET req == Request("GET", url, headers, None)
    IN IF out.k = "response"
       THEN Result(IF IsJson(out.text) THEN JsonDecode(out.text) ELSE Str(out.text),
                   "none",
                   <<LogRecord("INFO", "GET Request to %s - Status Code: %s",
                               <<Str(url), PyInt(out.status_code)>>),
                     LogRecord("INFO", "POST Request to %s - Response Text: %s",
                               <<Str(url), Str(out.text)>>)>>
                   \o (IF out.status_code # HTTP_OK
                       THEN <<LogRecord("ERROR", "GET request failed: %s", <<Str(out.text)>>)>>
                       ELSE <<>>),
                   <<req>>)
       ELSE Result(None, "none", <<TransportErrorLog("GET", url, out.k)>>, <<req>>)

\* On status 200 the body goes through Response.json(); for a body that is no
\* JSON that raises requests.exceptions.JSONDecodeError, a RequestException
\* (requests >= 2.27), which the third except clause catches.
send_get_request(url, headers, out) ==
    LET req == Request("GET", url, headers, None)
    IN IF out.k = "response"
       THEN LET records ==
                  <<LogRecord("INFO", "GET Request to %s - Status Code: %s",
                              <<Str(url), PyInt(out.status_code)>>),
                    LogRecord("INFO", "POST Request to %s - Response Text: %s",
                              <<Str(url), Str(out.text)>>)>>
                  \o (IF out.status_code # HTTP_OK
                      THEN <<LogRecord("ERROR", "GET request failed: %s", <<Str(out.text)>>)>>
                      ELSE <<>>)
            IN IF out.status_code = HTTP_OK
               THEN IF IsJson(out.text)
                    THEN Result(JsonDecode(out.text), "none", records, <<req>>)
                    ELSE Result(None, "none",
                                records \o <<TransportErrorLog("GET", url, "RequestException")>>,
                                <<req>>)
               ELSE Result(None, "none", records, <<req>>)
       ELSE Result(None, "none", <<TransportErrorLog("GET", url, out.k)>>, <<req>>)

---------------------------------------------------------------------------
(* Session: PileusAPIService.authenticate.                                 *)

\* the values config.get(..., fallback=os.getenv(...)) can give a credential
Credentials == {None, Str(<<>>), Str(<<"u">>)}

\* the guard with `and` for `or`
MissingBothCredentials == ~Truthy(username) /\ ~Truthy(password)

\* `not self.username or not self.password`
MissingCredentials == ~Truthy(username) \/ ~Truthy(password)

\* the guard with `and` for `or`: one of the two fields is enough
HasTokenOrKey == Truthy(auth_token) \/ Truthy(api_key)

\* `not self.auth_token or not self.api_key`, negated
Authenticated == Truthy(auth_token) /\ Truthy(api_key)

\* the session fields a call leaves behind, with its result
Outcome(res, token, key, account_key) ==
    [res |-> res, auth_token |-> token, api_key |-> key, account_api_key |-> account_key]

\* bool(self.auth_token and self.api_key)
SessionBool(token, key) == PyBool(Truthy(PyAnd(token, key)))

authenticate(out) ==
    IF MissingCredentials
    THEN Outcome(Result(PyBool(FALSE), "none",
                        <<LogRecord("ERROR",
                              "Missing credentials. Set them in config.ini or as environment variables.",
                              <<>>)>>,
                        <<>>),
                 auth_token, api_key, account_api_key)
    ELSE
      LET payload == Dict([f \in {"username", "password"} |->
                              IF f = "username" THEN username ELSE password])
          headers == Dict([h \in {"Content-Type"} |-> Str(<<"application/json">>)])
          post == send_post_request(BASE_AUTH_URL, headers, payload, out)
          response == post.ret
      IN IF Truthy(response)
         THEN IF response.t # "dict"
              \* response.get on a str or an int
              THEN Outcome(Result(None, "AttributeError", post.log, post.reqs),
                           auth_token, api_key, account_api_key)
              ELSE LET token == DictGet(response, "Authorization")
                       key == DictGet(response, "apikey")
                   IN IF key.t # "str"
                      \* self.api_key.replace on None, after the two assignments
                      THEN Outcome(Result(None, "AttributeError", post.log, post.reqs),
                                   token, key, account_api_key)
                      ELSE Outcome(Result(SessionBool(token, key), "none", post.log, post.reqs),
                                   token, key,
                                   Str(StrReplace(key.s, PLACEHOLDER, ACCOUNT_DIVISION)))
         ELSE Outcome(Result(SessionBool(auth_token, api_key), "none", post.log, post.reqs),
                      auth_token, api_key, account_api_key)

---------------------------------------------------------------------------
(* Domain operations.                                                      *)

AuthRequired ==
    Result(None, "none",
           <<LogRecord("ERROR", "Authentication required. Please authenticate first.", <<>>)>>,
           <<>>)

\* the headers of the list operations
ListHeaders ==
    Dict([h \in {"Authorization", "apikey"} |->
             IF h = "Authorization" THEN auth_token ELSE api_key])

\* the onboarding headers with the general key, as the list operations send it
OnboardingHeadersGeneralKey ==
    Dict([h \in {"Authorization", "apikey", "Content-Type"} |->
             CASE h = "Authorization" -> auth_token
               [] h = "apikey" -> api_key
               [] h = "Content-Type" -> Str(<<"application/json">>)])

\* the headers of the onboarding operations
OnboardingHeaders ==
    Dict([h \in {"Authorization", "apikey", "Content-Type"} |->
             CASE h = "Authorization" -> auth_token
               [] h = "apikey" -> account_api_key
               [] h = "Content-Type" -> Str(<<"application/json">>)])

get_list_of_users(out) ==
    IF ~Authenticated THEN AuthRequired
    ELSE send_get_request(BASE_API_URL \o <<"/users">>, ListHeaders, out)

get_users_and_roles(out) ==
    IF ~Authenticated THEN AuthRequired
    ELSE send_get_request(BASE_API_URL \o <<"/users/with-roles">>, ListHeaders, out)

OnboardingUrl(account_id) == BASE_API_V2_URL \o <<"/onboarding/aws/">> \o account_id.s

\* f"cur-{account_id}"
DefaultBucket(account_id) == Str(<<"c", "u", "r", "-">> \o account_id.s)
US_EAST_1 == Str(<<"us-east-1">>)

onboard_aws_account(a, out) ==
    IF ~Authenticated THEN AuthRequired
    ELSE LET payload ==
               Dict([f \in {"accountName", "bucketName", "bucketRegion"} |->
                       CASE f = "accountName" -> a.account_name
                         [] f = "bucketName" ->
                              IF Truthy(a.bucket_name) THEN a.bucket_name
                              ELSE DefaultBucket(a.account_id)
                         [] f = "bucketRegion" -> a.bucket_region])
         IN send_post_request(OnboardingUrl(a.account_id), OnboardingHeaders, payload, out)

\* class AccountType
DEDICATED == Str(<<"dedicated">>)
SHARED == Str(<<"shared">>)

Digits == <<"0", "1", "2", "3", "4", "5", "6", "7", "8", "9">>
IsDigit(c) == \E i \in 1..Len(Digits) : Digits[i] = c
DigitValue(c) == (CHOOSE i \in 1..Len(Digits) : Digits[i] = c) - 1

RECURSIVE DecimalValue(_)
DecimalValue(s) ==
    IF s = <<>> THEN 0 ELSE 10 * DecimalValue(SubSeq(s, 1, Len(s) - 1)) + DigitValue(s[Len(s)])

\* int(v): the number, or the exception int raises
IntOf(v) ==
    CASE v.t = "int"  -> [exc |-> "none", n |-> v.n]
      [] v.t = "bool" -> [exc |-> "none", n |-> IF v.b THEN 1 ELSE 0]
      [] v.t = "str"  -> IF v.s # <<>> /\ \A i \in 1..Len(v.s) : IsDigit(v.s[i])
                         THEN [exc |-> "none", n |-> DecimalValue(v.s)]
                         ELSE [exc |-> "ValueError", n |-> 0]
      [] OTHER        -> [exc |-> "TypeError", n |-> 0]

MspFields ==
    {"accountName", "bucketName", "bucketRegion", "accountType", "resellerCustomerId",
     "resellerCustomerName", "isCustomerSelfManaged", "resellerCustomerDomain",
     "autoAssignLinkedAccounts", "excludedLinkedAccountMatch"}

\* the payload dict literal of onboard_aws_account_msp, before the None values
\* are removed; the three int() calls have succeeded
MspPayloadLiteral(a) ==
    [f \in MspFields |->
        CASE f = "accountName" -> a.account_name
          [] f = "bucketName" ->
               IF Truthy(a.bucket_name) THEN a.bucket_name ELSE DefaultBucket(a.account_id)
          [] f = "bucketRegion" ->
               IF Truthy(a.bucket_region) THEN a.bucket_region ELSE US_EAST_1
          [] f = "accountType" ->
               IF IntOf(a.account_type).n # 0 THEN DEDICATED ELSE SHARED
          [] f = "resellerCustomerId" -> OrNone(a.reseller_customer_id)
          [] f = "resellerCustomerName" -> OrNone(a.reseller_customer_name)
          [] f = "isCustomerSelfManaged" -> PyInt(IntOf(a.is_customer_self_managed).n)
          [] f = "resellerCustomerDomain" -> OrNone(a.reseller_customer_domain)
          [] f = "autoAssignLinkedAccounts" -> PyInt(IntOf(a.auto_assign_linked_accounts).n)
          [] f = "excludedLinkedAccountMatch" -> OrNone(a.excluded_linked_account_match)]

\* {k: v for k, v in payload.items() if v is not None}
RemoveNone(d) == [f \in {g \in DOMAIN d : d[g] # None} |-> d[f]]

\* the first exception the dict literal raises, in the order of its entries
MspPayloadError(a) ==
    IF IntOf(a.account_type).exc # "none" THEN IntOf(a.account_type).exc
    ELSE IF IntOf(a.is_customer_self_managed).exc # "none"
         THEN IntOf(a.is_customer_self_managed).exc
         ELSE IntOf(a.auto_assign_linked_accounts).exc

\* f"{account_name}_{account_id}" and os.path.join(folder_name, "setup.sh")
FolderName(a) == a.account_name.s \o <<"_">> \o a.account_id.s
ScriptPath(a) == FolderName(a) \o <<"/", "setup.sh">>

\* the open-folder step: the answer typed at the prompt, and whether the
\* platform's opener succeeds
OpenFolderLog(a, answer, opened) ==
    IF answer # "y" THEN <<>>
    ELSE IF opened
         THEN <<LogRecord("INFO", "Opened folder: %s", <<Str(FolderName(a))>>)>>
         ELSE <<LogRecord("WARNING", "Could not open folder: %s", <<Str(<<"OSError">>)>>)>>

\* the test without `response and`: any str, the empty one too
IsAnyStr(response) == response.t = "str"

\* whether onboard_aws_account_msp saves the response as a script
IsScript(response) == Truthy(response) /\ response.t = "str"

\* res: the call's result; script: the text written to ScriptPath(a), or None
MspOutcome(res, script) == [res |-> res, script |-> script]

onboard_aws_account_msp(a, out, answer, opened) ==
    IF ~Authenticated THEN MspOutcome(AuthRequired, None)
    ELSE IF MspPayloadError(a) # "none"
    THEN MspOutcome(Result(None, MspPayloadError(a), <<>>, <<>>), None)
    ELSE LET payload == Dict(RemoveNone(MspPayloadLiteral(a)))
             post == send_post_request(OnboardingUrl(a.account_id), OnboardingHeaders,
                                       payload, out)
             response == post.ret
         IN IF IsScript(response)
            THEN MspOutcome(
                   Result(None, "none",
                          post.log
                          \o <<LogRecord("INFO", "Script saved to %s", <<Str(ScriptPath(a))>>)>>
                          \o OpenFolderLog(a, answer, opened),
                          post.reqs),
                   response)
            ELSE MspOutcome(Result(None, "none", post.log, post.reqs), None)

---------------------------------------------------------------------------
(* The mocked environment: what the remote API answers and what a caller   *)
(* passes.                                                                 *)

Statuses == {HTTP_OK, 500}

Outcomes(texts) ==
    {Failure(kind) : kind \in TransportErrors}
    \cup {Response(st, text) : st \in Statuses, text \in texts}

\* bodies of the auth endpoint: a JSON object with any of the fields, an empty
\* body, an error text
AuthTexts == {JsonEncode(v) : v \in AuthObjects} \cup {<<>>, MESSAGE}

\* bodies of the list endpoints
ListTexts == {JsonEncode(JsonObject(None, None, Str(MESSAGE))), MESSAGE}

\* bodies of the onboarding endpoint: raw text, JSON string literals, a JSON
\* object, a JSON number
OnboardingTexts ==
    {<<>>, SCRIPT, JsonEncode(Str(MESSAGE)), JsonEncode(Str(<<>>)),
     JsonEncode(JsonObject(None, None, Str(MESSAGE))), JsonEncode(PyInt(0))}

\* the answer typed at "Do you want to open the folder?" and whether the
\* platform's opener then succeeds
OpenFolderInputs == {<<"n", FALSE>>, <<"y", TRUE>>, <<"y", FALSE>>}

AccountIds == {Str(<<"7">>)}
AccountNames == {Str(<<"A">>)}
Optional(v) == {None, v}

OnboardArgs ==
    [account_id : AccountIds, account_name : AccountNames,
     bucket_name : Optional(Str(<<"b">>)), bucket_region : {US_EAST_1}]

\* the arguments of onboard_aws_account_msp, its defaults included
MspArgs ==
    [account_id : AccountIds, account_name : AccountNames,
     bucket_name : Optional(Str(<<"b">>)),
     bucket_region : Optional(Str(<<"eu">>)),
     account_type : {Str(<<"1">>), Str(<<"0">>), DEDICATED},
     reseller_customer_id : Optional(Str(<<"c">>)),
     reseller_customer_name : Optional(Str(<<"n">>)),
     is_customer_self_managed : {None, PyInt(0), PyInt(1)},
     reseller_customer_domain : Optional(Str(<<"d">>)),
     auto_assign_linked_accounts : {None, PyInt(0), PyInt(1)},
     excluded_linked_account_match : Optional(Str(<<"x">>))]

\* a few of them: the call with every default, and calls that name the customer
MspArgsFew ==
    {a \in MspArgs :
        /\ a.bucket_name = None /\ a.bucket_region = None
        /\ a.reseller_customer_id = None /\ a.excluded_linked_account_match = None
        /\ (a.reseller_customer_name = None) = (a.reseller_customer_domain = None)
        /\ (a.reseller_customer_name = None) = (a.account_type = DEDICATED)
        /\ a.is_customer_self_managed = a.auto_assign_linked_accounts
        /\ (a.reseller_customer_name = None) = (a.is_customer_self_managed = None)}

\* an auth endpoint that hands out one key, or leaves the apikey out
FixedKeyAuthTexts ==
    {JsonEncode(JsonObject(Str(TOKEN), Str(PLACEHOLDER), None)),
     JsonEncode(JsonObject(Str(TOKEN), None, None))}

---------------------------------------------------------------------------
(* Calls on a PileusAPIService object, in any order, one at a time.        *)

\* the record of a call: what was passed, what the transport met, what came back
Call(op, args, out, res, script) ==
    [op |-> op, args |-> args,
     out |-> IF res.reqs = <<>> THEN NoOutcome ELSE out,
     ret |-> res.ret, exc |-> res.exc, reqs |-> res.reqs, log |-> res.log,
     script |-> script]

NoCall == Call("none", <<>>, NoOutcome, Result(None, "none", <<>>, <<>>), None)

Init ==
    /\ username \in Credentials
    /\ password \in Credentials
    /\ auth_token = None
    /\ api_key = None
    /\ account_api_key = None
    /\ files = [p \in {} |-> <<>>]
    /\ dirs = {}
    /\ call = NoCall
    /\ pc = "start"
    /\ auth_result = "pending"
    /\ parent_choice = "unbound"
    /\ choice = "unbound"
    /\ n_auth = 0

\* service.authenticate() with the auth endpoint's answer `out`
DoAuthenticate(out) ==
    LET o == authenticate(out)
    IN /\ auth_token' = o.auth_token
       /\ api_key' = o.api_key
       /\ account_api_key' = o.account_api_key
       /\ call' = Call("authenticate", <<>>, out, o.res, None)
       /\ UNCHANGED <<username, password, files, dirs>>

\* a call that touches neither the session nor the file system
DoCall(op, args, out, res) ==
    /\ call' = Call(op, args, out, res, None)
    /\ UNCHANGED <<service_vars, files, dirs>>

\* os.makedirs(folder_name, exist_ok=True) and the write of setup.sh
SaveScript(a, text) ==
    /\ dirs' = dirs \cup {FolderName(a)}
    /\ files' = [p \in DOMAIN files \cup {ScriptPath(a)} |->
                    IF p = ScriptPath(a) THEN text ELSE files[p]]

DoOnboardMsp(a, out, answer, opened) ==
    LET o == onboard_aws_account_msp(a, out, answer, opened)
    IN /\ call' = Call("onboard_aws_account_msp", a, out, o.res, o.script)
       /\ IF o.script # None THEN SaveScript(a, o.script.s) ELSE UNCHANGED <<files, dirs>>
       /\ UNCHANGED service_vars

\* onboard_aws_account_msp with the inputs it gets to read: the endpoint's
\* answer if it sends the request, the prompt's answer if it saves a script
CallOnboardMsp(a) ==
    IF onboard_aws_account_msp(a, Failure("Timeout"), "n", FALSE).res.reqs = <<>>
    THEN DoOnboardMsp(a, NoOutcome, "n", FALSE)
    ELSE \E out \in Outcomes(OnboardingTexts) :
            IF onboard_aws_account_msp(a, out, "n", FALSE).script = None
            THEN DoOnboardMsp(a, out, "n", FALSE)
            ELSE \E i \in OpenFolderInputs : DoOnboardMsp(a, out, i[1], i[2])

Idle == call = NoCall

Authenticate ==
    /\ Idle
    /\ \E out \in Outcomes(AuthTexts) : DoAuthenticate(out)
    /\ UNCHANGED main_vars

SendPost ==
    /\ Idle
    /\ \E out \in Outcomes(OnboardingTexts) :
          DoCall("send_post_request", <<>>, out,
                 send_post_request(BASE_AUTH_URL, EmptyDict, EmptyDict, out))
    /\ UNCHANGED main_vars

SendGet ==
    /\ Idle
    /\ \E out \in Outcomes(ListTexts) :
          DoCall("send_get_request", <<>>, out,
                 send_get_request(BASE_API_URL, EmptyDict, out))
    /\ UNCHANGED main_vars

GetListOfUsers ==
    /\ Idle
    /\ \E out \in Outcomes(ListTexts) :
          DoCall("get_list_of_users", <<>>, out, get_list_of_users(out))
    /\ UNCHANGED main_vars

GetUsersAndRoles ==
    /\ Idle
    /\ \E out \in Outcomes(ListTexts) :
          DoCall("get_users_and_roles", <<>>, out, get_users_and_roles(out))
    /\ UNCHANGED main_vars

OnboardAwsAccount ==
    /\ Idle
    /\ \E a \in OnboardArgs, out \in Outcomes(OnboardingTexts) :
          DoCall("onboard_aws_account", a, out, onboard_aws_account(a, out))
    /\ UNCHANGED main_vars

OnboardAwsAccountMsp ==
    /\ Idle
    /\ \E a \in MspArgsFew : CallOnboardMsp(a)
    /\ UNCHANGED main_vars

\* the caller takes the result (or the exception) of the call
Return ==
    /\ ~Idle
    /\ call' = NoCall
    /\ UNCHANGED <<service_vars, files, dirs, main_vars>>

Next ==
    \/ Authenticate
    \/ SendPost
    \/ SendGet
    \/ GetListOfUsers
    \/ GetUsersAndRoles
    \/ OnboardAwsAccount
    \/ OnboardAwsAccountMsp
    \/ Return

Spec == Init /\ [][Next]_vars

---------------------------------------------------------------------------
(* onboard_aws_account_msp with every combination of its arguments, on a   *)
(* session that authenticates against the fixed-key auth endpoint.         *)

AuthenticateFixedKey ==
    /\ Idle
    /\ \E out \in Outcomes(FixedKeyAuthTexts) : DoAuthenticate(out)
    /\ UNCHANGED main_vars

OnboardAwsAccountMspAnyArgs ==
    /\ Idle
    /\ \E a \in MspArgs : CallOnboardMsp(a)
    /\ UNCHANGED main_vars

MspNext ==
    \/ AuthenticateFixedKey
    \/ OnboardAwsAccountMspAnyArgs
    \/ Return

MspSpec == Init /\ [][MspNext]_vars

---------------------------------------------------------------------------
(* main(): authenticate, then the two-level menu.                          *)

\* what get_valid_input("Enter choice: ", ["1", "2", "3", "4", "5"]) returns
MenuChoices == {"1", "2", "3", "4", "5"}

\* the answers of the auth endpoint in a run of main
MainAuthTexts == FixedKeyAuthTexts \cup {<<>>, MESSAGE}

\* the arguments main collects for choice "4": get_valid_input gives a
\* non-empty string, or None where allow_empty; get_boolean_input gives 0 or 1;
\* the domain may be left empty only for a customer that is not self-managed
PromptedMspArgs ==
    {a \in MspArgs :
        /\ a.account_type # DEDICATED
        /\ a.reseller_customer_name # None
        /\ a.is_customer_self_managed # None
        /\ a.auto_assign_linked_accounts # None
        /\ (a.is_customer_self_managed = PyInt(1) => a.reseller_customer_domain # None)}

\* service.onboard_aws_account(account_id, account_name): the other two
\* parameters take their defaults
PromptedOnboardArgs == {a \in OnboardArgs : a.bucket_name = None}

\* service = PileusAPIService(); service.authenticate()
MainStart ==
    /\ pc = "start"
    /\ \E out \in Outcomes(MainAuthTexts) : DoAuthenticate(out)
    /\ pc' = "authenticate"
    /\ n_auth' = n_auth + 1
    /\ UNCHANGED <<auth_result, parent_choice, choice>>

\* main entering the menu whenever authenticate returned, True or False
MainAuthenticatedAnyResult ==
    /\ pc = "authenticate"
    /\ IF ~Returned(call)
       THEN auth_result' = "raised" /\ pc' = "crashed" /\ UNCHANGED call
       ELSE /\ auth_result' = (IF Truthy(call.ret) THEN "true" ELSE "false")
            /\ pc' = "main_menu"
            /\ call' = NoCall
    /\ UNCHANGED <<service_vars, files, dirs, parent_choice, choice, n_auth>>

\* `if service.authenticate():` ... `else:`, or the exception ends main
MainAuthenticated ==
    /\ pc = "authenticate"
    /\ IF ~Returned(call)
       THEN auth_result' = "raised" /\ pc' = "crashed" /\ UNCHANGED call
       ELSE IF Truthy(call.ret)
            THEN auth_result' = "true" /\ pc' = "main_menu" /\ call' = NoCall
            ELSE auth_result' = "false" /\ pc' = "done" /\ call' = NoCall
    /\ UNCHANGED <<service_vars, files, dirs, parent_choice, choice, n_auth>>

MainMenu ==
    /\ pc = "main_menu"
    /\ \E c \in MenuChoices :
          /\ parent_choice' = c
          /\ pc' = CASE c = "1" -> "onboarding_menu"
                     [] c = "5" -> "done"
                     [] OTHER -> "main_menu"
    /\ UNCHANGED <<service_vars, files, dirs, call, auth_result, choice, n_auth>>

\* the onboarding menu has read `c`; the operation it calls has run
Chosen(c) ==
    /\ pc = "onboarding_menu"
    /\ choice' = c
    /\ pc' = "operation"
    /\ UNCHANGED <<auth_result, parent_choice, n_auth>>

MenuGetListOfUsers ==
    /\ Chosen("1")
    /\ \E out \in Outcomes(ListTexts) :
          DoCall("get_list_of_users", <<>>, out, get_list_of_users(out))

MenuGetUsersAndRoles ==
    /\ Chosen("2")
    /\ \E out \in Outcomes(ListTexts) :
          DoCall("get_users_and_roles", <<>>, out, get_users_and_roles(out))

MenuOnboardAwsAccount ==
    /\ Chosen("3")
    /\ \E a \in PromptedOnboardArgs, out \in Outcomes(OnboardingTexts) :
          DoCall("onboard_aws_account", a, out, onboard_aws_account(a, out))

MenuOnboardAwsAccountMsp ==
    /\ Chosen("4")
    /\ \E a \in PromptedMspArgs : CallOnboardMsp(a)

MenuBack ==
    /\ pc = "onboarding_menu"
    /\ choice' = "5"
    /\ pc' = "main_menu"
    /\ UNCHANGED <<service_vars, files, dirs, call, auth_result, parent_choice, n_auth>>

\* the operation has returned to the onboarding loop, or its exception ends main
MainOperationDone ==
    /\ pc = "operation"
    /\ IF ~Returned(call)
       THEN pc' = "crashed" /\ UNCHANGED call
       ELSE pc' = "onboarding_menu" /\ call' = NoCall
    /\ UNCHANGED <<service_vars, files, dirs, auth_result, parent_choice, choice, n_auth>>

MainNext ==
    \/ MainStart
    \/ MainAuthenticated
    \/ MainMenu
    \/ MenuGetListOfUsers
    \/ MenuGetUsersAndRoles
    \/ MenuOnboardAwsAccount
    \/ MenuOnboardAwsAccountMsp
    \/ MenuBack
    \/ MainOperationDone

MainSpec == Init /\ [][MainNext]_vars

---------------------------------------------------------------------------
(* Properties.                                                             *)

DomainOperations ==
    {"get_list_of_users", "get_users_and_roles", "onboard_aws_account",
     "onboard_aws_account_msp"}
ListOperations == {"get_list_of_users", "get_users_and_roles"}
OnboardingOperations == {"onboard_aws_account", "onboard_aws_account_msp"}

\* a session field or credential that is None or the empty string
Absent(v) == v = None \/ v = Str(<<>>)

\* whether the log record names the URL among its arguments
NamesUrl(record, url) == \E i \in 1..Len(record.args) : record.args[i] = Str(url)

\* the records of the call in progress at the given level
RecordsAt(level) == {i \in 1..Len(call.log) : call.log[i].level = level}

\* C1: a domain operation called while auth_token or api_key is absent
\* returns None, raises nothing and issues no HTTP request.
C1_NoRequestWithoutSession ==
    (call.op \in DomainOperations /\ (Absent(auth_token) \/ Absent(api_key)))
        => call.ret = None /\ call.exc = "none" /\ call.reqs = <<>>

\* a list call made while the token is stored and the key is not
C1_Witness ==
    /\ call.op = "get_list_of_users"
    /\ auth_token = Str(TOKEN)
    /\ api_key = None
    /\ call.ret = None

\* C2: with an empty or missing username or password, authenticate returns
\* False, issues no HTTP request and leaves the three session fields absent.
C2_MissingCredentialsRejected ==
    (call.op = "authenticate" /\ (Absent(username) \/ Absent(password)))
        => /\ call.ret = PyBool(FALSE)
           /\ call.exc = "none"
           /\ call.reqs = <<>>
           /\ auth_token = None /\ api_key = None /\ account_api_key = None

C2_Witness ==
    /\ call.op = "authenticate"
    /\ username = Str(<<"u">>)
    /\ password = Str(<<>>)
    /\ call.ret = PyBool(FALSE)

\* C3: with non-empty credentials, whatever the auth POST ends in, authenticate
\* returns a boolean, true iff auth_token and api_key are both present after
\* the call, and raises nothing.
C3_AuthenticateAlwaysReturnsBool ==
    (call.op = "authenticate" /\ ~Absent(username) /\ ~Absent(password))
        => /\ call.exc = "none"
           /\ call.ret \in {PyBool(TRUE), PyBool(FALSE)}
           /\ (call.ret = PyBool(TRUE)) <=> (~Absent(auth_token) /\ ~Absent(api_key))

RECURSIVE Concat(_)
\* the concatenation of a sequence of strings
Concat(ss) == IF ss = <<>> THEN <<>> ELSE Head(ss) \o Concat(Tail(ss))

\* k with every "-1" replaced by "18745:0", position by position: the
\* replacement where a "-1" starts, nothing for the "1" that ends it, and the
\* character itself anywhere else
DerivedAccountKey(k) ==
    Concat([i \in 1..Len(k) |->
              IF k[i] = "-" /\ i < Len(k) /\ k[i + 1] = "1"
              THEN <<"1", "8", "7", "4", "5", ":", "0">>
              ELSE IF k[i] = "1" /\ i > 1 /\ k[i - 1] = "-" THEN <<>> ELSE <<k[i]>>])

\* the members of the JSON object the auth endpoint answered with
AuthAnswer == JsonDecode(call.out.text).d

\* the auth endpoint answered {Authorization: t, apikey: k}
AnsweredTokenAndKey ==
    /\ call.out.k = "response"
    /\ IsJson(call.out.text)
    /\ JsonDecode(call.out.text).t = "dict"
    /\ {"Authorization", "apikey"} \subseteq DOMAIN AuthAnswer

\* C4: after authenticate succeeds on {Authorization: t, apikey: k} the session
\* holds t, k and k with "-1" replaced by "18745:0" ("key-1" gives
\* "key18745:0"); every onboarding request carries that derived key and t, every
\* list request carries k itself and t.
C4_DerivedKeyInOnboardingRequests ==
    /\ StrReplace(<<"k", "e", "y", "-", "1">>, PLACEHOLDER, ACCOUNT_DIVISION)
          = <<"k", "e", "y", "1", "8", "7", "4", "5", ":", "0">>
    /\ (call.op = "authenticate" /\ call.ret = PyBool(TRUE) /\ AnsweredTokenAndKey)
          => /\ auth_token = AuthAnswer["Authorization"]
             /\ api_key = AuthAnswer["apikey"]
             /\ account_api_key = Str(DerivedAccountKey(AuthAnswer["apikey"].s))
    /\ (~Absent(auth_token) /\ ~Absent(api_key))
          => account_api_key = Str(DerivedAccountKey(api_key.s))
    /\ (call.op \in OnboardingOperations /\ call.reqs # <<>>)
          => /\ call.reqs[1].headers.d["apikey"] = Str(DerivedAccountKey(api_key.s))
             /\ call.reqs[1].headers.d["Authorization"] = auth_token
    /\ (call.op \in ListOperations /\ call.reqs # <<>>)
          => /\ call.reqs[1].headers.d["apikey"] = api_key
             /\ call.reqs[1].headers.d["Authorization"] = auth_token

\* an MSP onboarding request sent with the key "1-1", derived to "118745:0"
C4_Witness ==
    /\ call.op = "onboard_aws_account_msp"
    /\ call.reqs # <<>>
    /\ api_key = Str(<<"1", "-", "1">>)
    /\ call.reqs[1].headers.d["apikey"] = Str(<<"1", "1", "8", "7", "4", "5", ":", "0">>)

\* C5 as stated: on a non-200 answer a list operation returns None and the log
\* holds an error record that names the request URL.
C5_ErrorRecordNamesUrl ==
    (call.op \in ListOperations /\ call.out.k = "response" /\ call.out.status_code # 200)
        => /\ call.ret = None
           /\ \E i \in RecordsAt("ERROR") : NamesUrl(call.log[i], call.reqs[1].url)

\* C5, amended: on a non-200 answer a list operation returns None (the body is
\* dropped); the log holds info records that name the request URL, one of them
\* with the status code, and an error record whose only argument is the
\* response text.
C5_ErrorRecordCarriesText ==
    (call.op \in ListOperations /\ call.out.k = "response" /\ call.out.status_code # 200)
        => /\ call.ret = None
           /\ call.exc = "none"
           /\ \E i \in RecordsAt("INFO") :
                 call.log[i].args = <<Str(call.reqs[1].url), PyInt(call.out.status_code)>>
           /\ RecordsAt("ERROR") # {}
           /\ \A i \in RecordsAt("ERROR") : call.log[i].args = <<Str(call.out.text)>>

C5_Witness ==
    /\ call.op = "get_list_of_users"
    /\ call.out.k = "response"
    /\ call.out.status_code = 500
    /\ call.out.text = MESSAGE
    /\ Len(call.log) = 3

\* C6: send_post_request and send_get_request make exactly one request attempt;
\* when it fails in the transport they return None, log an error and raise
\* nothing. No method makes more than one attempt.
C6_OneAttemptFailuresBecomeNone ==
    /\ Len(call.reqs) <= 1
    /\ call.op \in {"send_post_request", "send_get_request"}
          => /\ Len(call.reqs) = 1
             /\ call.exc = "none"
             /\ call.out.k \in TransportErrors
                   => call.ret = None /\ RecordsAt("ERROR") # {}

C6_Witness ==
    /\ call.op = "send_post_request"
    /\ call.out.k = "Timeout"
    /\ call.ret = None

\* the optional inputs of onboard_aws_account_msp and the payload key of each
OptionalInputs ==
    [resellerCustomerId |-> "reseller_customer_id",
     resellerCustomerName |-> "reseller_customer_name",
     isCustomerSelfManaged |-> "is_customer_self_managed",
     resellerCustomerDomain |-> "reseller_customer_domain",
     autoAssignLinkedAccounts |-> "auto_assign_linked_accounts",
     excludedLinkedAccountMatch |-> "excluded_linked_account_match"]

\* C7: every onboard_aws_account_msp call on an authenticated session, whatever
\* optional inputs are None, transmits a payload that has no key for an input
\* that was None and maps no key to None.
C7_PayloadSentWithoutNullInputs ==
    (call.op = "onboard_aws_account_msp" /\ ~Absent(auth_token) /\ ~Absent(api_key))
        => /\ Len(call.reqs) = 1
           /\ \A f \in DOMAIN OptionalInputs :
                 call.args[OptionalInputs[f]] = None => f \notin DOMAIN call.reqs[1].json.d
           /\ \A f \in DOMAIN call.reqs[1].json.d : call.reqs[1].json.d[f] # None

\* "{accountName}_{accountId}/setup.sh" for the call in progress
SetupScript ==
    call.args.account_name.s \o <<"_">> \o call.args.account_id.s \o <<"/", "setup.sh">>

\* the onboarding endpoint answered the MSP call in progress
MspAnswered == call.op = "onboard_aws_account_msp" /\ call.out.k = "response"

\* the file system holds setup.sh with this content, in its folder
Saved(text) ==
    /\ call.args.account_name.s \o <<"_">> \o call.args.account_id.s \in dirs
    /\ SetupScript \in DOMAIN files
    /\ files[SetupScript] = text

\* C8 as stated: a plain-text (non-JSON) body T of the answer to an MSP call is
\* afterwards the content of "N_I/setup.sh".
C8_AnyPlainTextSaved ==
    (MspAnswered /\ ~IsJson(call.out.text)) => Saved(call.out.text)

\* what an MSP call that is not answered with a non-empty plain-text body
\* leaves of the file system
MspWritesNothing ==
    (/\ call'.op = "onboard_aws_account_msp"
     /\ call # call'
     /\ \/ call'.out.k \in TransportErrors
        \/ call'.out.k = "response" /\ call'.out.text = <<>>
        \/ /\ call'.out.k = "response"
           /\ IsJson(call'.out.text)
           /\ JsonDecode(call'.out.text).t = "dict")
        => files' = files /\ dirs' = dirs

\* C8, amended: a non-empty plain-text (non-JSON) body T of the answer to an
\* MSP call is afterwards the content of "N_I/setup.sh", in a folder that
\* exists; an empty body, a JSON object or a failed request writes no file.
C8_NonEmptyPlainTextSaved ==
    /\ []((MspAnswered /\ ~IsJson(call.out.text) /\ call.out.text # <<>>)
             => Saved(call.out.text))
    /\ [][MspWritesNothing]_vars

C8_Witness ==
    /\ MspAnswered
    /\ call.out.status_code = 200
    /\ call.out.text = SCRIPT
    /\ files = [p \in {<<"A", "_", "7", "/", "setup.sh">>} |-> SCRIPT]
    /\ dirs = {<<"A", "_", "7">>}

\* C10 as stated: whatever the status, a non-empty body that is raw text or a
\* JSON string literal is written to setup.sh, and the call returns None.
C10_BodySavedWhateverStatus ==
    (/\ MspAnswered
     /\ call.out.text # <<>>
     /\ ~IsJson(call.out.text) \/ JsonDecode(call.out.text).t = "str")
        => Saved(call.out.text) /\ call.ret = None

\* what send_post_request hands back for the answer to the call in progress
AnswerValue ==
    IF IsJson(call.out.text) THEN JsonDecode(call.out.text) ELSE Str(call.out.text)

\* C10, amended: whatever the status, when the answer is non-empty raw text or
\* the JSON literal of a non-empty string, that text (for the literal: the
\* string it denotes, without the quotes) is written to setup.sh; the call
\* returns None whenever it returns.
C10_TextSavedWhateverStatus ==
    /\ (MspAnswered /\ AnswerValue.t = "str" /\ AnswerValue.s # <<>>)
          => Saved(AnswerValue.s)
    /\ (call.op = "onboard_aws_account_msp" /\ call.exc = "none") => call.ret = None

\* an error text of a failed onboarding saved as the script
C10_Witness ==
    /\ MspAnswered
    /\ call.out.status_code = 500
    /\ call.out.text = JsonEncode(Str(MESSAGE))
    /\ SetupScript \in DOMAIN files
    /\ files[SetupScript] = MESSAGE

Menus == {"main_menu", "onboarding_menu", "operation"}

\* authenticate has been called once as soon as main has left its start, and
\* never before; a domain operation runs only after it returned True, on a
\* session that holds the token and the key; a False ends main with no menu
\* entered and no operation called
MainOrder ==
    /\ n_auth = (IF pc = "start" THEN 0 ELSE 1)
    /\ pc = "start" => call = NoCall
    /\ call.op \in DomainOperations
          => /\ auth_result = "true"
             /\ ~Absent(auth_token) /\ ~Absent(api_key)
             /\ call.reqs # <<>>
    /\ pc \in Menus => auth_result = "true"
    /\ auth_result = "false"
          => pc = "done" /\ call = NoCall /\ parent_choice = "unbound" /\ choice = "unbound"
    /\ auth_result = "raised" => pc = "crashed" /\ call.op = "authenticate"

\* the menu loop is left only by "5" at the main menu
MenuLeftByExit ==
    (pc \in Menus /\ pc' \notin Menus)
        => pc = "main_menu" /\ parent_choice' = "5" /\ pc' = "done"

\* "5" in the onboarding menu leads back to the main menu
BackToMainMenu ==
    (pc = "onboarding_menu" /\ choice' = "5" /\ pc' # pc) => pc' = "main_menu"

\* "2", "3" and "4" leave main in the main menu
UnimplementedStays ==
    (pc = "main_menu" /\ parent_choice' \in {"2", "3", "4"}) => pc' = "main_menu"

\* C9: main calls authenticate exactly once, before any domain operation; when
\* it returns False main ends with no menu and no operation; when it returns
\* True every operation of the menu runs with auth_token and api_key present,
\* and the loop ends only by "5" at the main menu ("5" in the onboarding menu
\* leads back, "2" to "4" at the main menu stay there).
C9_MainAuthenticatesOnceThenMenu ==
    /\ []MainOrder
    /\ [][MenuLeftByExit]_vars
    /\ [][BackToMainMenu]_vars
    /\ [][UnimplementedStays]_vars

\* main left by "5" after an MSP onboarding saved a script and the user went
\* back to the main menu
C9_Witness ==
    /\ pc = "done"
    /\ auth_result = "true"
    /\ n_auth = 1
    /\ parent_choice = "5"
    /\ choice = "5"
    /\ files # <<>>

====
